---- MODULE Spec2Model ----
(***************************************************************************)
(* Model of the resilience examples of bparker/code/examples:              *)
(*   - the two CircuitBreaker classes (payment_handlers.py,                *)
(*     resilient_api_client.py), driven in lockstep by the same calls,     *)
(*     call outcomes and clock readings;                                   *)
(*   - the three retry_with_backoff decorators (payment_service.py,        *)
(*     payment_handlers.py, resilient_api_client.py);                      *)
(*   - PaymentService.process_payment / handle_post_payments over the      *)
(*     class-level mock repositories of payment_service.py.                *)
(* Prefixes: PH_ = payment_handlers.py, RC_ = resilient_api_client.py,     *)
(* PS_ = payment_service.py.  Logging and the metrics counters are not     *)
(* part of the modelled state.                                             *)
(***************************************************************************)
EXTENDS Integers, Sequences, FiniteSets, TLC

VARIABLES
    \* ---- circuit breakers ----
    now,          \* the reading of time.time(), in whole seconds
    cb_config,    \* failure_threshold, recovery_timeout, half_open_max_calls
    ph,           \* payment_handlers.CircuitBreaker: its four private fields
    rc,           \* resilient_api_client.CircuitBreaker: its four private fields
    streak,       \* history: consecutive failed invocations of the wrapped function
    cb_last,      \* history: the last breaker operation and what it did
    \* ---- retry_with_backoff ----
    rt_impl,      \* which decorator: "PS", "PH" or "RC"
    rt_config,    \* the decorator's arguments
    rt_run,       \* the last call of the wrapper: what the wrapped function did
                  \* at each invocation, and what the wrapper did
    \* ---- payment_service.py ----
    ps_store,     \* the class-level state: UserRepository._users,
                  \* TransactionRepository._transactions and _idempotency_index,
                  \* ReconciliationQueue._queue, and the charges Stripe has made
    today,        \* datetime.utcnow().date(), as a day number
    ps_last,      \* history: the last call, the store before it and its result
    \* ---- user_service.py ----
    us_users,     \* db._users: the stored user rows, by id
    us_queries,   \* history: the params of the db.query calls made so far
    us_last,      \* history: the last get_user call and how it ended
    \* ---- async_flow_debugger.py ----
    af_flows,     \* ASYNC_FLOWS, the inventory
    af_last       \* history: the last function called and what it returned

cb_vars == <<now, cb_config, ph, rc, streak, cb_last>>
rt_vars == <<rt_impl, rt_config, rt_run>>
ps_vars == <<ps_store, today, ps_last>>
us_vars == <<us_users, us_queries, us_last>>
af_vars == <<af_flows, af_last>>

vars == <<now, cb_config, ph, rc, streak, cb_last, rt_impl, rt_config, rt_run,
          ps_store, today, ps_last, us_users, us_queries, us_last,
          af_flows, af_last>>

(***************************************************************************)
(* Bounds of the model                                                     *)
(***************************************************************************)
MaxClock == 6
MaxThreshold == 2
MaxTimeout == 2
MaxHalfOpen == 1
MaxDuration == 1
MaxRetries == 2
MaxDelayCap == 4
MaxTx == 2
MaxDay == 1
MaxQueries == 2
MaxUserId == 4
MaxFlows == 1

(***************************************************************************)
(* The state of each part before it is used.  A specification of one part  *)
(* starts the other parts here and leaves them alone.                      *)
(***************************************************************************)
NoRun ==
    [status |-> "idle", outs |-> <<>>, calls |-> 0, delays |-> <<>>,
     events |-> <<>>, value |-> "none",
     exc |-> [type |-> "none", retry_after |-> 0, raised_at |-> 0,
              cause |-> 0]]

\* the arguments of @retry_with_backoff on _call_stripe_with_retry
StripeRetryConfig_two ==
    [max_retries |-> 2, base_delay |-> 1, max_delay |-> 30,
     exponential_base |-> 2, jitter |-> FALSE,
     retryable_exceptions |-> {"StripeTimeoutError", "StripeRateLimitError"}]

StripeRetryConfig ==
    [max_retries |-> 3, base_delay |-> 1, max_delay |-> 30,
     exponential_base |-> 2, jitter |-> FALSE,
     retryable_exceptions |-> {"StripeTimeoutError", "StripeRateLimitError"}]

RTQuiet ==
    /\ rt_impl = "PS"
    /\ rt_config = StripeRetryConfig
    /\ rt_run = NoRun

\* UserRepository._users: balance in whole dollars; has_card is
\* default_card_id is not None
UsersInit ==
    (1 :> [balance |-> 1000, has_card |-> TRUE])
    @@ (2 :> [balance |-> 500, has_card |-> TRUE])
    @@ (3 :> [balance |-> 250, has_card |-> FALSE])

\* the class attributes as the module is loaded
StoreInit ==
    [users |-> UsersInit,
     transactions |-> <<>>,      \* _transactions, by id (ids are 1, 2, ...)
     index |-> <<>>,             \* _idempotency_index: pairs <<key, id>>
     queue |-> <<>>,             \* ReconciliationQueue._queue
     charges |-> <<>>]           \* charges Stripe created, by charge id

NoResult ==
    [kind |-> "none", code |-> "none", status_code |-> 0, status |-> "none",
     transaction_id |-> 0, original_transaction_id |-> 0, field |-> "none",
     decline_code |-> "none"]

NoRequest ==
    [user_id |-> 0, amount |-> 0, currency |-> "usd", idempotency_key |-> <<>>]

\* _call_stripe_with_retry was not called
NoStripe ==
    [status |-> "idle", value |-> "none", exc |-> "none", calls |-> 0,
     raises |-> 0]

NoCall ==
    [op |-> "init", request |-> NoRequest, key |-> <<>>, pre |-> StoreInit,
     result |-> NoResult, stripe_calls |-> 0,
     run |-> NoStripe,       \* what _call_stripe_with_retry did
     faults |-> {},          \* the repository calls that raised
     called |-> FALSE,       \* process_payment was entered
     inner |-> NoResult]     \* how process_payment ended

PSQuiet ==
    /\ ps_store = StoreInit
    /\ today = 0
    /\ ps_last = NoCall

\* MockDatabase._users
\* MockDatabase._users; an email is the sequence of its parts
StoredUsers ==
    (1 :> [id |-> 1, name |-> "Alice",
           email |-> <<"alice", "@", "example.com">>, is_active |-> TRUE])
    @@ (2 :> [id |-> 2, name |-> "Bob",
              email |-> <<"bob", "@", "example.com">>, is_active |-> TRUE])
    @@ (3 :> [id |-> 3, name |-> "Charlie",
              email |-> <<"charlie", "@", "example.com">>,
              is_active |-> FALSE])

\* a Python value passed as user_id: its type and, for text, the number it
\* spells
PyValue(type, v) == [type |-> type, v |-> v]

NoGetUser ==
    [op |-> "init", user_id |-> PyValue("int", 0),
     raise_on_missing |-> FALSE, kind |-> "none", exc |-> "none",
     value |-> <<>>, queries |-> <<>>, users_before |-> StoredUsers]

USQuiet ==
    /\ us_users = StoredUsers
    /\ us_queries = <<>>
    /\ us_last = NoGetUser

\* ASYNC_FLOWS as the file defines it
ASYNC_FLOWS ==
    [scheduled_tasks |-> <<
        [name |-> "nightly_reconciliation", schedule |-> "0 3 * * *",
         touches |-> <<"balance", "transactions">>],
        [name |-> "cleanup_old_sessions", schedule |-> "0 0 * * *",
         touches |-> <<"sessions">>],
        [name |-> "generate_reports", schedule |-> "0 6 * * 1",
         touches |-> <<"reports", "analytics">>]>>,
     event_handlers |-> <<
        [event |-> "payment.succeeded", handler |-> "update_balance",
         touches |-> <<"balance", "audit_log">>],
        [event |-> "payment.failed", handler |-> "log_failure",
         touches |-> <<"audit_log", "alerts">>],
        [event |-> "user.registered", handler |-> "send_welcome_email",
         touches |-> <<"email_log", "user_preferences">>]>>,
     background_jobs |-> <<
        [name |-> "send_notification", queue |-> "notifications",
         touches |-> <<"notification_log">>],
        [name |-> "process_refund", queue |-> "payments",
         touches |-> <<"balance", "transactions", "audit_log">>],
        [name |-> "resize_image", queue |-> "media",
         touches |-> <<"media_storage", "user_profile">>]>>]

NoFlowCall ==
    [op |-> "init", field |-> "none", writers |-> <<>>, fields |-> {},
     printed |-> "nothing"]

AFQuiet ==
    /\ af_flows = ASYNC_FLOWS
    /\ af_last = NoFlowCall

CBQuiet ==
    /\ now = 1
    /\ cb_config = [failure_threshold |-> 5, recovery_timeout |-> 60,
                    half_open_max_calls |-> 3]
    /\ ph = [_failures |-> 0, _state |-> "CLOSED",
             _last_failure_time |-> <<>>, _half_open_calls |-> 0]
    /\ rc = [_failures |-> 0, _state |-> "CLOSED",
             _last_failure_time |-> <<>>, _half_open_calls |-> 0]
    /\ streak = [ph |-> 0, rc |-> 0]
    /\ cb_last = [op |-> "init", t |-> 1, outcome |-> "ok",
                  ph_pre |-> ph, rc_pre |-> rc,
                  ph_invoked |-> FALSE, rc_invoked |-> FALSE,
                  ph_result |-> "none", rc_result |-> "none",
                  ph_changes |-> {}, rc_changes |-> {}]

(***************************************************************************)
(* Circuit breakers                                                        *)
(***************************************************************************)
CircuitState == {"CLOSED", "OPEN", "HALF_OPEN"}

\* Optional[float]: <<>> is None, <<t>> is the value t.
None == <<>>
Some(t) == <<t>>

\* dataclass field defaults of CircuitBreaker (identical in both files)
CircuitBreakerInit ==
    [_failures |-> 0, _state |-> "CLOSED",
     _last_failure_time |-> None, _half_open_calls |-> 0]

\* ---- payment_handlers.py ------------------------------------------------

\* `self._last_failure_time` used as a condition: None and 0.0 are falsy
PH_truthy(lft) == lft # None /\ lft[1] # 0

PH_state_any(b, t, cfg) ==
    IF PH_truthy(b._last_failure_time)
       THEN IF t - b._last_failure_time[1] >= cfg.recovery_timeout
               THEN [b EXCEPT !._state = "HALF_OPEN", !._half_open_calls = 0]
               ELSE b
       ELSE b

\* the state property
PH_state(b, t, cfg) ==
    IF b._state = "OPEN" /\ PH_truthy(b._last_failure_time)
       THEN IF t - b._last_failure_time[1] >= cfg.recovery_timeout
               THEN [b EXCEPT !._state = "HALF_OPEN", !._half_open_calls = 0]
               ELSE b
       ELSE b

PH_on_success_keeps_count(b) ==
    [b EXCEPT !._state = "CLOSED", !._half_open_calls = 0]

PH_on_success(b) ==
    [b EXCEPT !._failures = 0, !._state = "CLOSED", !._half_open_calls = 0]

PH_on_failure(b, t, cfg) ==
    LET f == b._failures + 1
    IN  [b EXCEPT !._failures = f,
                  !._last_failure_time = Some(t),
                  !._state = IF f >= cfg.failure_threshold THEN "OPEN" ELSE @]

\* call(): t is the clock when call() starts, dur the time the wrapped
\* function runs, outcome what the wrapped function does when invoked.
\* mid is the breaker just before the wrapped function is invoked (or at the
\* rejection).
PH_call(b, t, outcome, dur, cfg) ==
    LET b1 == PH_state(b, t, cfg)
    IN  IF b1._state = "OPEN"
           THEN [b |-> b1, mid |-> b1, invoked |-> FALSE,
                 result |-> "CircuitOpenError"]
           ELSE LET b2 == IF b1._state = "HALF_OPEN"
                             THEN [b1 EXCEPT !._half_open_calls = @ + 1]
                             ELSE b1
                IN  IF outcome = "ok"
                       THEN [b |-> PH_on_success(b2), mid |-> b2,
                             invoked |-> TRUE, result |-> "returned"]
                       ELSE [b |-> PH_on_failure(b2, t + dur, cfg), mid |-> b2,
                             invoked |-> TRUE, result |-> "raised"]

\* ---- resilient_api_client.py --------------------------------------------

RC_state_early(b, t, cfg) ==
    IF b._state = "OPEN"
       THEN IF b._last_failure_time # None
               THEN IF t - b._last_failure_time[1] >= cfg.recovery_timeout - 1
                       THEN [b EXCEPT !._state = "HALF_OPEN",
                                      !._half_open_calls = 0]
                       ELSE b
               ELSE b
       ELSE b

\* the state property
RC_state(b, t, cfg) ==
    IF b._state = "OPEN"
       THEN IF b._last_failure_time # None
               THEN IF t - b._last_failure_time[1] >= cfg.recovery_timeout
                       THEN [b EXCEPT !._state = "HALF_OPEN",
                                      !._half_open_calls = 0]
                       ELSE b
               ELSE b
       ELSE b

RC_on_success(b) ==
    [b EXCEPT !._failures = 0, !._state = "CLOSED", !._half_open_calls = 0]

RC_on_failure_late(b, t, cfg) ==
    LET f == b._failures + 1
    IN  [b EXCEPT !._failures = f,
                  !._last_failure_time = Some(t),
                  !._state = IF f > cfg.failure_threshold THEN "OPEN" ELSE @]

RC_on_failure(b, t, cfg) ==
    LET f == b._failures + 1
    IN  [b EXCEPT !._failures = f,
                  !._last_failure_time = Some(t),
                  !._state = IF f >= cfg.failure_threshold THEN "OPEN" ELSE @]

RC_call(b, t, outcome, dur, cfg) ==
    LET b1 == RC_state(b, t, cfg)
    IN  IF b1._state = "OPEN"
           THEN [b |-> b1, mid |-> b1, invoked |-> FALSE,
                 result |-> "CircuitOpenError"]
           ELSE IF b1._state = "HALF_OPEN"
                   /\ b1._half_open_calls >= cfg.half_open_max_calls
           THEN [b |-> b1, mid |-> b1, invoked |-> FALSE,
                 result |-> "CircuitOpenError"]
           ELSE LET b2 == IF b1._state = "HALF_OPEN"
                             THEN [b1 EXCEPT !._half_open_calls = @ + 1]
                             ELSE b1
                IN  IF outcome = "ok"
                       THEN [b |-> RC_on_success(b2), mid |-> b2,
                             invoked |-> TRUE, result |-> "returned"]
                       ELSE [b |-> RC_on_failure(b2, t + dur, cfg), mid |-> b2,
                             invoked |-> TRUE, result |-> "raised"]

RC_reset(b) ==
    [b EXCEPT !._failures = 0, !._state = "CLOSED",
              !._last_failure_time = None, !._half_open_calls = 0]

\* ---- the breakers as a state machine --------------------------------------

Outcomes == {"ok", "fail"}

\* the assignments to _state that changed it, in one operation that took the
\* breaker from pre through mid to post
Changes(pre, mid, post) ==
    {c \in {<<pre._state, mid._state>>, <<mid._state, post._state>>} :
        c[1] # c[2]}

\* consecutive failed invocations of the wrapped function after operation r
NextStreak(n, r) ==
    IF ~r.invoked THEN n
    ELSE IF r.result = "returned" THEN 0 ELSE n + 1

CBConfigs ==
    [failure_threshold : 0..MaxThreshold,
     recovery_timeout : 1..MaxTimeout,
     half_open_max_calls : 0..MaxHalfOpen]

\* wrapped functions invoked since the breaker last entered HALF_OPEN, after
\* a call r made from state pre
NextTrials(n, pre, r) ==
    LET entered == pre._state # "HALF_OPEN" /\ r.mid._state = "HALF_OPEN"
        since == IF entered THEN 0 ELSE n
    IN  IF r.mid._state = "HALF_OPEN" /\ r.invoked THEN since + 1 ELSE since

NoOp ==
    [op |-> "init", t |-> 1, outcome |-> "ok",
     ph_pre |-> CircuitBreakerInit, rc_pre |-> CircuitBreakerInit,
     ph_invoked |-> FALSE, rc_invoked |-> FALSE,
     ph_result |-> "none", rc_result |-> "none",
     ph_changes |-> {}, rc_changes |-> {},
     ph_trials |-> 0, rc_trials |-> 0]

CBInit ==
    /\ now = 1      \* time.time() is seconds since 1970: readings are positive
    /\ cb_config \in CBConfigs
    /\ ph = CircuitBreakerInit
    /\ rc = CircuitBreakerInit
    /\ streak = [ph |-> 0, rc |-> 0]
    /\ cb_last = NoOp
    /\ RTQuiet
    /\ PSQuiet
    /\ USQuiet
    /\ AFQuiet

\* both breakers receive the same call() at the same clock reading
CBCall(outcome, dur) ==
    /\ now + dur <= MaxClock
    /\ LET p == PH_call(ph, now, outcome, dur, cb_config)
           r == RC_call(rc, now, outcome, dur, cb_config)
       IN  /\ ph' = p.b
           /\ rc' = r.b
           /\ streak' = [ph |-> NextStreak(streak.ph, p),
                         rc |-> NextStreak(streak.rc, r)]
           /\ cb_last' = [op |-> "call", t |-> now, outcome |-> outcome,
                          ph_pre |-> ph, rc_pre |-> rc,
                          ph_invoked |-> p.invoked, rc_invoked |-> r.invoked,
                          ph_result |-> p.result, rc_result |-> r.result,
                          ph_changes |-> Changes(ph, p.mid, p.b),
                          rc_changes |-> Changes(rc, r.mid, r.b),
                          ph_trials |-> NextTrials(cb_last.ph_trials, ph, p),
                          rc_trials |-> NextTrials(cb_last.rc_trials, rc, r)]
           \* the wrapped function takes time only when it runs
           /\ now' = IF p.invoked \/ r.invoked THEN now + dur ELSE now
    /\ UNCHANGED <<cb_config, rt_vars, ps_vars, us_vars, af_vars>>

\* time passes between calls
CBTick ==
    /\ now < MaxClock
    /\ now' = now + 1
    /\ cb_last' = [NoOp EXCEPT !.op = "tick", !.t = now,
                               !.ph_pre = ph, !.rc_pre = rc,
                               !.ph_trials = cb_last.ph_trials,
                               !.rc_trials = cb_last.rc_trials]
    /\ UNCHANGED <<cb_config, ph, rc, streak, rt_vars, ps_vars, us_vars, af_vars>>

\* reset() exists in resilient_api_client.py only
CBReset ==
    /\ rc' = RC_reset(rc)
    /\ streak' = [streak EXCEPT !.rc = 0]
    /\ cb_last' = [NoOp EXCEPT !.op = "reset", !.t = now,
                               !.ph_pre = ph, !.rc_pre = rc,
                               !.rc_changes = Changes(rc, rc, RC_reset(rc)),
                               !.ph_trials = cb_last.ph_trials,
                               !.rc_trials = cb_last.rc_trials]
    /\ UNCHANGED <<now, cb_config, ph, rt_vars, ps_vars, us_vars, af_vars>>

CBNext ==
    \/ \E outcome \in Outcomes, dur \in 0..MaxDuration : CBCall(outcome, dur)
    \/ CBTick
    \/ CBReset

SpecCB == CBInit /\ [][CBNext]_vars

\* the two breakers driven by what both classes have: call() and the clock
CBCallsNext ==
    \/ \E outcome \in Outcomes, dur \in 0..MaxDuration : CBCall(outcome, dur)
    \/ CBTick

SpecCBCalls == CBInit /\ [][CBCallsNext]_vars

(***************************************************************************)
(* retry_with_backoff                                                      *)
(***************************************************************************)
Min(a, b) == IF a <= b THEN a ELSE b

RECURSIVE Pow(_, _)
Pow(b, n) == IF n = 0 THEN 1 ELSE b * Pow(b, n - 1)

\* the exception classes of the three files and the built-in ones they use:
\* each class with its direct base class
ExcBase ==
    [c \in {"RetryableError", "TransientError", "CircuitOpenError",
            "MaxRetriesExceededError", "BalanceUpdateError", "OSError",
            "ValueError"} |-> "Exception"]
    @@ [c \in {"StripeTimeoutError", "StripeRateLimitError"} |-> "RetryableError"]
    @@ [c \in {"PaymentServiceError", "DatabaseError", "RateLimitError",
               "ServiceUnavailableError"} |-> "TransientError"]
    @@ [c \in {"ConnectionError", "TimeoutError"} |-> "OSError"]

RECURSIVE Bases(_)
\* a class and all its base classes
Bases(c) == IF c \in DOMAIN ExcBase THEN {c} \cup Bases(ExcBase[c]) ELSE {c}

Catches_anything(classes, c) == TRUE

\* `except classes as e` catches an exception of class c
Catches(classes, c) == Bases(c) \cap classes # {}

\* what the wrapped function does at one invocation
Return(v) == [kind |-> "return", type |-> "none", retry_after |-> 0, value |-> v]
Raise(c) == [kind |-> "raise", type |-> c, retry_after |-> 0, value |-> "none"]
\* StripeRateLimitError(retry_after)
RaiseRateLimit(ra) ==
    [kind |-> "raise", type |-> "StripeRateLimitError", retry_after |-> ra,
     value |-> "none"]

\* the exception object raised by invocation n of the wrapped function
ExcOf(o, n) ==
    [type |-> o.type, retry_after |-> o.retry_after, raised_at |-> n, cause |-> 0]
NoExc == [type |-> "none", retry_after |-> 0, raised_at |-> 0, cause |-> 0]

\* random.random() in hundredths; the jitter factor 0.75 + random() * 0.5 in
\* two-hundredths, so a sleep is measured in 1/200 s
JitterFactor(roll) == 150 + roll
NoJitter == JitterFactor(50)

\* what the wrapper does, in order: invocations of the wrapped function and
\* time.sleep(s) calls
Call == [ev |-> "call", s |-> 0]
Sleep(s) == [ev |-> "sleep", s |-> s]

\* what the wrapped function does at invocation n (were it invoked more often
\* than outs describes, it would go on as at the last described invocation)
At(outs, n) == IF n <= Len(outs) THEN outs[n] ELSE outs[Len(outs)]

Prefix(outs, n) == [i \in 1..n |-> At(outs, i)]

Returned(outs, n, delays, events) ==
    [status |-> "returned", outs |-> Prefix(outs, n), calls |-> n,
     delays |-> delays, events |-> events, value |-> At(outs, n).value,
     exc |-> NoExc]
Raised(outs, n, delays, events, e) ==
    [status |-> "raised", outs |-> Prefix(outs, n), calls |-> n,
     delays |-> delays, events |-> events, value |-> "none", exc |-> e]

\* ---- payment_service.py ---------------------------------------------------
PS_delay(cfg, o, attempt) ==
    IF Catches({"StripeRateLimitError"}, o.type)
       THEN Min(o.retry_after, cfg.max_delay)
       ELSE Min(cfg.base_delay * Pow(cfg.exponential_base, attempt),
                cfg.max_delay)

\* the three outcomes of one pass through the loop body
\* (try / except retryable_exceptions / anything else)
RECURSIVE PS_loop(_, _, _, _, _)
\* the for loop of wrapper from iteration `attempt` on
PS_loop(cfg, outs, attempt, delays, events) ==
    IF attempt > cfg.max_retries
       THEN \* `raise last_exception` after the loop
            Raised(outs, attempt, delays, events,
                   ExcOf(At(outs, attempt), attempt))
       ELSE LET n == attempt + 1
                o == At(outs, n)
                ev == Append(events, Call)
            IN  IF o.kind = "return"
                   THEN Returned(outs, n, delays, ev)
                ELSE IF Catches(cfg.retryable_exceptions, o.type)
                   THEN IF attempt = cfg.max_retries
                           THEN \* bare `raise`: the same exception
                                Raised(outs, n, delays, ev, ExcOf(o, n))
                           ELSE LET d == PS_delay(cfg, o, attempt)
                                IN  PS_loop(cfg, outs, attempt + 1,
                                            Append(delays, d),
                                            Append(ev, Sleep(d * NoJitter)))
                ELSE \* not caught: propagates
                     Raised(outs, n, delays, ev, ExcOf(o, n))

PS_wrapper(cfg, outs) == PS_loop(cfg, outs, 0, <<>>, <<>>)

\* ---- payment_handlers.py --------------------------------------------------
PH_delay_bug(cfg, attempt) ==
    Min(cfg.base_delay * (cfg.exponential_base * attempt), cfg.max_delay)

PH_delay(cfg, attempt) ==
    Min(cfg.base_delay * Pow(cfg.exponential_base, attempt), cfg.max_delay)

PH_sleep(cfg, d, roll) ==
    IF cfg.jitter THEN d * JitterFactor(roll) ELSE d * NoJitter

\* raise MaxRetriesExceededError(...) from e, e raised by invocation n
PH_MaxRetriesExceeded(o, n) ==
    [type |-> "MaxRetriesExceededError", retry_after |-> 0, raised_at |-> 0,
     cause |-> n]

RECURSIVE PH_loop(_, _, _, _, _, _)
PH_loop(cfg, outs, rolls, attempt, delays, events) ==
    IF attempt > cfg.max_retries
       THEN \* `raise MaxRetriesExceededError("Unexpected ...")` after the loop
            Raised(outs, attempt, delays, events,
                   [type |-> "MaxRetriesExceededError", retry_after |-> 0,
                    raised_at |-> 0, cause |-> 0])
       ELSE LET n == attempt + 1
                o == At(outs, n)
                ev == Append(events, Call)
            IN  IF o.kind = "return"
                   THEN Returned(outs, n, delays, ev)
                ELSE IF Catches(cfg.retryable_exceptions, o.type)
                   THEN IF attempt = cfg.max_retries
                           THEN Raised(outs, n, delays, ev,
                                       PH_MaxRetriesExceeded(o, n))
                           ELSE LET d == PH_delay(cfg, attempt)
                                IN  PH_loop(cfg, outs, rolls, attempt + 1,
                                            Append(delays, d),
                                            Append(ev, Sleep(
                                                PH_sleep(cfg, d, rolls[n]))))
                ELSE Raised(outs, n, delays, ev, ExcOf(o, n))

PH_wrapper(cfg, outs, rolls) == PH_loop(cfg, outs, rolls, 0, <<>>, <<>>)

\* ---- resilient_api_client.py ----------------------------------------------
RC_delay(cfg, attempt) ==
    Min(cfg.base_delay * Pow(cfg.exponential_base, attempt), cfg.max_delay)

RC_sleep(cfg, d, roll) ==
    IF cfg.jitter THEN d * JitterFactor(roll) ELSE d * NoJitter

RC_MaxRetriesExceeded_unchained(o, n) ==
    [type |-> "MaxRetriesExceededError", retry_after |-> 0, raised_at |-> 0,
     cause |-> 0]

\* raise MaxRetriesExceededError(...) from e, e raised by invocation n
RC_MaxRetriesExceeded(o, n) ==
    [type |-> "MaxRetriesExceededError", retry_after |-> 0, raised_at |-> 0,
     cause |-> n]

RC_reraise_wrapped(o, n) == RC_MaxRetriesExceeded(o, n)

\* `except Exception as e: ... raise`: the exception of invocation n as it is
RC_reraise(o, n) == ExcOf(o, n)

RECURSIVE RC_loop(_, _, _, _, _, _)
RC_loop(cfg, outs, rolls, attempt, delays, events) ==
    IF attempt > cfg.max_retries
       THEN Raised(outs, attempt, delays, events,
                   [type |-> "MaxRetriesExceededError", retry_after |-> 0,
                    raised_at |-> 0, cause |-> 0])
       ELSE LET n == attempt + 1
                o == At(outs, n)
                ev == Append(events, Call)
            IN  IF o.kind = "return"
                   THEN Returned(outs, n, delays, ev)
                ELSE IF Catches(cfg.retryable_exceptions, o.type)
                   THEN IF attempt = cfg.max_retries
                           THEN Raised(outs, n, delays, ev,
                                       RC_MaxRetriesExceeded(o, n))
                           ELSE LET d == RC_delay(cfg, attempt)
                                IN  RC_loop(cfg, outs, rolls, attempt + 1,
                                            Append(delays, d),
                                            Append(ev, Sleep(
                                                RC_sleep(cfg, d, rolls[n]))))
                ELSE Raised(outs, n, delays, ev, RC_reraise(o, n))

RC_wrapper(cfg, outs, rolls) == RC_loop(cfg, outs, rolls, 0, <<>>, <<>>)

\* ---- the decorators as a state machine ------------------------------------

\* the default retryable_exceptions of each decorator, and the tuples the
\* decorated functions of each file pass
DefaultRetryable(impl) ==
    CASE impl = "PS" -> {"RetryableError"}
      [] impl = "PH" -> {"TransientError"}
      [] impl = "RC" -> {"TransientError", "ConnectionError", "TimeoutError"}

RetryableChoices(impl) ==
    CASE impl = "PS" -> {DefaultRetryable("PS"),
                         {"StripeTimeoutError", "StripeRateLimitError"}}
      [] impl = "PH" -> {DefaultRetryable("PH"), {"DatabaseError"}}
      [] impl = "RC" -> {DefaultRetryable("RC"), {"RateLimitError"}}

\* what a wrapped function of each file may do at one invocation
FuncOutcomes(impl) ==
    CASE impl = "PS" -> {Return("a"), Return("b"), Raise("StripeTimeoutError"),
                         RaiseRateLimit(1), RaiseRateLimit(3),
                         Raise("RetryableError"), Raise("ValueError")}
      [] impl = "PH" -> {Return("a"), Return("b"), Raise("PaymentServiceError"),
                         Raise("DatabaseError"), Raise("CircuitOpenError")}
      [] impl = "RC" -> {Return("a"), Return("b"),
                         Raise("ServiceUnavailableError"),
                         Raise("RateLimitError"), Raise("CircuitOpenError")}

JitterRolls == {0, 99}

RTConfigs(impl) ==
    [max_retries : 0..MaxRetries,
     base_delay : {1, 2},
     max_delay : {3, MaxDelayCap},
     exponential_base : {1, 2},
     jitter : IF impl = "PS" THEN {FALSE} ELSE BOOLEAN,
     retryable_exceptions : RetryableChoices(impl)]

\* sequences of exactly n elements of S
Tuples(S, n) == [1..n -> S]

\* the values random.random() gives to one wrapper call: read only with jitter
RollsFor(cfg) ==
    IF cfg.jitter THEN Tuples(JitterRolls, cfg.max_retries)
                  ELSE {[i \in 1..cfg.max_retries |-> 0]}

RTInit ==
    /\ rt_impl \in {"PS", "PH", "RC"}
    /\ rt_config \in RTConfigs(rt_impl)
    /\ rt_run = NoRun
    /\ CBQuiet
    /\ PSQuiet
    /\ USQuiet
    /\ AFQuiet

\* one call of the decorated function; outs[i] is what the wrapped function
\* does at its i-th invocation, rolls[i] the i-th random.random()
PSRetryCall(outs) ==
    /\ rt_impl = "PS"
    /\ rt_run.status = "idle"
    /\ rt_run' = PS_wrapper(rt_config, outs)
    /\ UNCHANGED <<rt_impl, rt_config, cb_vars, ps_vars, us_vars, af_vars>>

PHRetryCall(outs, rolls) ==
    /\ rt_impl = "PH"
    /\ rt_run.status = "idle"
    /\ rt_run' = PH_wrapper(rt_config, outs, rolls)
    /\ UNCHANGED <<rt_impl, rt_config, cb_vars, ps_vars, us_vars, af_vars>>

RCRetryCall(outs, rolls) ==
    /\ rt_impl = "RC"
    /\ rt_run.status = "idle"
    /\ rt_run' = RC_wrapper(rt_config, outs, rolls)
    /\ UNCHANGED <<rt_impl, rt_config, cb_vars, ps_vars, us_vars, af_vars>>

\* the wrapper has returned or raised; the decorated function can be called again
RTDone ==
    /\ rt_run.status # "idle"
    /\ rt_run' = NoRun
    /\ UNCHANGED <<rt_impl, rt_config, cb_vars, ps_vars, us_vars, af_vars>>

RTNext ==
    \/ \E outs \in Tuples(FuncOutcomes("PS"), rt_config.max_retries + 1) :
          PSRetryCall(outs)
    \/ \E outs \in Tuples(FuncOutcomes("PH"), rt_config.max_retries + 1),
          rolls \in RollsFor(rt_config) :
          PHRetryCall(outs, rolls)
    \/ \E outs \in Tuples(FuncOutcomes("RC"), rt_config.max_retries + 1),
          rolls \in RollsFor(rt_config) :
          RCRetryCall(outs, rolls)
    \/ RTDone

SpecRetry == RTInit /\ [][RTNext]_vars

(***************************************************************************)
(* payment_service.py: PaymentService over the class-level repositories    *)
(***************************************************************************)

\* ---- errors: code and status_code of each BaseAPIError subclass ----------
ValidationError(field) ==
    [NoResult EXCEPT !.kind = "raise", !.code = "VALIDATION_ERROR",
                     !.status_code = 400, !.field = field]
PaymentDeclinedError_400(decline_code) ==
    [NoResult EXCEPT !.kind = "raise", !.code = "PAYMENT_DECLINED",
                     !.status_code = 400, !.decline_code = decline_code]

PaymentDeclinedError(decline_code) ==
    [NoResult EXCEPT !.kind = "raise", !.code = "PAYMENT_DECLINED",
                     !.status_code = 402, !.decline_code = decline_code]
DuplicatePaymentError(original_transaction_id) ==
    [NoResult EXCEPT !.kind = "raise", !.code = "DUPLICATE_PAYMENT",
                     !.status_code = 409,
                     !.original_transaction_id = original_transaction_id]
PaymentServiceUnavailableError ==
    [NoResult EXCEPT !.kind = "raise", !.code = "SERVICE_UNAVAILABLE",
                     !.status_code = 503]
PartialFailureError ==
    [NoResult EXCEPT !.kind = "raise", !.code = "PARTIAL_FAILURE",
                     !.status_code = 500]
\* an exception that is no BaseAPIError (decimal.InvalidOperation, ...)
OtherException(name) ==
    [NoResult EXCEPT !.kind = "raise", !.code = name]

\* the dict process_payment returns
ReturnDict(status, tx) ==
    [NoResult EXCEPT !.kind = "return", !.status = status,
                     !.transaction_id = tx.id]

\* ---- repositories ---------------------------------------------------------
\* a value used as a condition: None and "" are falsy
Falsy(key) == key = None \/ key = <<"">>

\* UserRepository.get_by_id: None is <<>>, a user is <<user>>
User_get_by_id(st, user_id) ==
    IF user_id \in DOMAIN st.users THEN <<st.users[user_id]>> ELSE <<>>

User_update_balance(st, user_id, new_balance) ==
    IF user_id \in DOMAIN st.users
       THEN [st EXCEPT !.users[user_id].balance = new_balance]
       ELSE st

Tx_create_unindexed(st, tx) == [st EXCEPT !.transactions = Append(@, tx)]

\* TransactionRepository.create; a transaction id is a fresh uuid, here the
\* position of the transaction in the order of creation
Tx_create(st, tx) ==
    [st EXCEPT !.transactions = Append(@, tx),
               !.index = IF Falsy(tx.idempotency_key)
                            THEN @
                            ELSE (tx.idempotency_key :> tx.id) @@ @]

Tx_get_by_idempotency_key_none(st, key) == <<>>

\* TransactionRepository.get_by_idempotency_key: <<>> is None
Tx_get_by_idempotency_key(st, key) ==
    IF key \in DOMAIN st.index
       THEN IF st.index[key] \in DOMAIN st.transactions
               THEN <<st.transactions[st.index[key]]>>
               ELSE <<>>
       ELSE <<>>

\* TransactionRepository.update; the Transaction held by the repository is the
\* object process_payment assigns to, so the stored record follows it
Tx_update(st, tx) == [st EXCEPT !.transactions[tx.id] = tx]

\* ---- MockStripeClient.create_charge ----------------------------------------
\* what one create_charge call does, by the value of random.random()
ChargeRolls == {"timeout", "rate_limit", "declined", "succeeded"}

create_charge(roll) ==
    CASE roll = "timeout" -> Raise("StripeTimeoutError")
      [] roll = "rate_limit" -> RaiseRateLimit(30)
      [] roll = "declined" -> Return("failed")
      [] roll = "succeeded" -> Return("succeeded")

\* failure_message of a declined charge
DeclineMessage ==
    "Your card was declined. Please try a different payment method."

\* str(e) of the two Stripe exceptions
StrOfExc(e) ==
    IF e = "StripeRateLimitError" THEN "Rate limited. Retry after 30s"
    ELSE "Connection to Stripe timed out"

\* ---- PaymentService ---------------------------------------------------------
PS_validate_request_none(request) == NoResult

\* _validate_request: NoResult, or the ValidationError it raises
PS_validate_request(request) ==
    IF request.amount <= 0 THEN ValidationError("amount")
    ELSE IF request.amount > 10000 THEN ValidationError("amount")
    ELSE IF request.currency \notin {"usd", "eur", "gbp"}
         THEN ValidationError("currency")
    ELSE NoResult

\* _generate_idempotency_key: the first 32 hex digits of the SHA-256 of
\* "user_id:amount:currency:date", kept as the hashed data (no collisions)
PS_generate_idempotency_key(request, day) ==
    <<"sha256", request.user_id, request.amount, request.currency, day>>

\* _call_stripe_with_retry: the decorated create_charge call; what the caller
\* sees of it is how it ended and how often create_charge ran
PS_call_stripe_with_retry(rolls) ==
    LET run == PS_wrapper(StripeRetryConfig,
                          [i \in 1..Len(rolls) |-> create_charge(rolls[i])])
    IN  [status |-> run.status, value |-> run.value, exc |-> run.exc.type,
         calls |-> run.calls,
         raises |-> Cardinality({i \in 1..run.calls :
                                    create_charge(rolls[i]).kind = "raise"})]

Outcome(st, result, run) ==
    [st |-> st, result |-> result, stripe_calls |-> run.calls, run |-> run,
     called |-> TRUE, inner |-> result]

PS_handle_partial_failure_lost(st, stripe_charge_id, tx, error) == st

\* _handle_partial_failure: one item on the reconciliation queue
PS_handle_partial_failure(st, stripe_charge_id, tx, error) ==
    [st EXCEPT !.queue = Append(@,
        [type |-> "partial_payment_failure",
         stripe_charge_id |-> stripe_charge_id,
         transaction_id |-> tx.id,
         user_id |-> tx.user_id,
         amount |-> tx.amount,
         error |-> error])]

\* steps 5 to 9 of process_payment, after the pending transaction was created.
\* env.run is what _call_stripe_with_retry does; env.faults names the
\* repository calls of steps 7 and 8 that raise ("update" for
\* transaction_repo.update, "update_balance" for user_repo.update_balance).
\* The repositories of this file never raise; a PaymentService built on other
\* repositories may see them raise.
PS_charge(st, request, user, tx, key, env) ==
    LET run == env.run
    IN  IF run.status = "raised"
           THEN IF Catches({"StripeTimeoutError", "StripeRateLimitError"},
                           run.exc)
                   THEN \* all retries exhausted
                        Outcome(Tx_update(st,
                                    [tx EXCEPT !.status = "FAILED",
                                               !.error_message = StrOfExc(run.exc)]),
                                PaymentServiceUnavailableError, run)
                   ELSE \* any other exception leaves process_payment as it is
                        Outcome(st, OtherException(run.exc), run)
        ELSE IF run.value = "failed"
           THEN Outcome(Tx_update(st,
                            [tx EXCEPT !.status = "FAILED",
                                       !.error_message = DeclineMessage]),
                        PaymentDeclinedError("card_declined"), run)
        ELSE LET charge_id == Len(st.charges) + 1
                 charged == [st EXCEPT !.charges = Append(@,
                                [id |-> charge_id, amount |-> request.amount,
                                 currency |-> request.currency,
                                 customer |-> user.id,
                                 idempotency_key |-> key])]
                 done == [tx EXCEPT !.stripe_charge_id = charge_id,
                                    !.status = "COMPLETED"]
                 \* the two assignments change the object create() stored
                 assigned == [charged EXCEPT !.transactions[tx.id] = done]
             IN  IF "update" \in env.faults
                    THEN Outcome(PS_handle_partial_failure(assigned, charge_id,
                                                           done, "update"),
                                 PartialFailureError, run)
                 ELSE IF "update_balance" \in env.faults
                    THEN \* queued, and the payment still succeeds
                         Outcome(PS_handle_partial_failure(
                                     Tx_update(assigned, done), charge_id,
                                     done, "update_balance"),
                                 ReturnDict("success", done), run)
                 ELSE Outcome(User_update_balance(Tx_update(assigned, done),
                                  user.id, user.balance + request.amount),
                              ReturnDict("success", done), run)

\* request.idempotency_key or self._generate_idempotency_key(request)
PS_key(request, day) ==
    IF Falsy(request.idempotency_key)
       THEN PS_generate_idempotency_key(request, day)
       ELSE request.idempotency_key

\* process_payment(request) on the store st at date day; env is what
\* _call_stripe_with_retry and the repositories do, should they be called
PS_process_payment(st, request, day, env) ==
    LET invalid == PS_validate_request(request)
        key == PS_key(request, day)
        existing == Tx_get_by_idempotency_key(st, key)
        found == User_get_by_id(st, request.user_id)
    IN  IF invalid.kind = "raise" THEN Outcome(st, invalid, NoStripe)
        ELSE IF existing # <<>> /\ existing[1].status = "COMPLETED"
           THEN Outcome(st, DuplicatePaymentError(existing[1].id), NoStripe)
        ELSE IF existing # <<>> /\ existing[1].status = "PENDING"
           THEN Outcome(st, ReturnDict("pending", existing[1]), NoStripe)
        ELSE IF found = <<>>
           THEN Outcome(st, ValidationError("user_id"), NoStripe)
        ELSE IF ~found[1].has_card
           THEN Outcome(st, ValidationError("payment_method"), NoStripe)
        ELSE LET user == [id |-> request.user_id, balance |-> found[1].balance]
                 tx == [id |-> Len(st.transactions) + 1,
                        user_id |-> request.user_id,
                        amount |-> request.amount,
                        currency |-> request.currency,
                        status |-> "PENDING",
                        stripe_charge_id |-> 0,
                        idempotency_key |-> key,
                        error_message |-> "none"]
             IN  PS_charge(Tx_create(st, tx), request, user, tx, key, env)

\* ---- handle_post_payments ----------------------------------------------------
\* Decimal(str(request_body.get("amount", 0))): a body amount is
\* [given, parses, v]; an absent amount is 0, an unparsable one raises
\* decimal.InvalidOperation
BodyAmount(v) == [given |-> TRUE, parses |-> TRUE, v |-> v]
BodyAmountAbsent == [given |-> FALSE, parses |-> TRUE, v |-> 0]
BodyAmountGarbage == [given |-> TRUE, parses |-> FALSE, v |-> 0]

Handler_parse(body) ==
    [user_id |-> body.user_id,
     amount |-> IF body.amount.given THEN body.amount.v ELSE 0,
     currency |-> body.currency,
     idempotency_key |-> body.idempotency_key]

Handler_response_api_only(result) ==
    IF result.kind = "return" THEN [result EXCEPT !.status_code = 200]
    ELSE result

\* the except clauses of handle_post_payments: (response, status code)
Handler_response(result) ==
    IF result.kind = "return" THEN [result EXCEPT !.status_code = 200]
    ELSE IF result.status_code # 0 THEN result      \* BaseAPIError
    ELSE [NoResult EXCEPT !.kind = "raise", !.code = "INTERNAL_ERROR",
                          !.status_code = 500]

\* handle_post_payments(request_body): the repositories it constructs hold no
\* state of their own, they read and write the class attributes
PS_handle_post_payments(st, body, day, env) ==
    IF ~body.amount.parses
       THEN [Outcome(st, [Handler_response(OtherException("InvalidOperation"))
                             EXCEPT !.kind = "return"], NoStripe)
                EXCEPT !.called = FALSE,
                       !.inner = OtherException("InvalidOperation")]
       ELSE LET out == PS_process_payment(st, Handler_parse(body), day, env)
            IN  [out EXCEPT !.result = [Handler_response(out.result)
                                           EXCEPT !.kind = "return"]]

\* ---- the payment service as a state machine ----------------------------------
UserIds == {0, 1, 3}           \* 0: no user has this id; 3 has no card
Amounts == {0, 10000, 10001}
Currencies == {"usd", "xyz"}
Keys == {None, <<"test_key_123">>}

\* a request that passes every check
GoodRequest(key) ==
    [user_id |-> 1, amount |-> 10000, currency |-> "usd",
     idempotency_key |-> key]

\* the good request with and without a key of its own, and the keyed requests
\* that differ from it in one of user, amount and currency
PaymentRequests ==
    {GoodRequest(k) : k \in Keys}
       \cup UNION {{[GoodRequest(k) EXCEPT !.user_id = u] : u \in UserIds}
                     \cup {[GoodRequest(k) EXCEPT !.amount = a] : a \in Amounts}
                     \cup {[GoodRequest(k) EXCEPT !.currency = c] :
                              c \in Currencies}
                   : k \in Keys \ {None}}

\* bodies without "idempotency_key": the good request, a body without an
\* amount and one whose amount is no number
RequestBodies ==
    {[GoodRequest(None) EXCEPT !.amount = a] :
        a \in {BodyAmount(GoodRequest(None).amount), BodyAmountAbsent,
               BodyAmountGarbage}}

\* what create_charge would do at each invocation of one process_payment
\* call, for as many invocations as the decorator can make
StripeRuns == Tuples(ChargeRolls, StripeRetryConfig.max_retries + 1)

PSInit ==
    /\ PSQuiet
    /\ CBQuiet
    /\ RTQuiet
    /\ USQuiet
    /\ AFQuiet

\* every way _call_stripe_with_retry can end
StripeResults == {PS_call_stripe_with_retry(rolls) : rolls \in StripeRuns}

\* the repository calls that can raise after a run: steps 7 and 8 are reached
\* only after a successful charge
\* (when update raises, update_balance is not called)
FaultsFor(run) ==
    IF run.status = "returned" /\ run.value = "succeeded"
       THEN {{}, {"update"}, {"update_balance"}}
       ELSE {{}}

StripeEnvs ==
    UNION {{[run |-> r, faults |-> f] : f \in FaultsFor(r)} :
              r \in StripeResults}

Calm == [run |-> PS_call_stripe_with_retry(<<"succeeded">>), faults |-> {}]

\* a call that does not reach Stripe reads no random number and makes none of
\* the repository calls of steps 7 and 8
EnvsFor(out) ==
    IF out.stripe_calls = 0 THEN {Calm}
    ELSE StripeEnvs

PSCommit(op, request, out, env) ==
    /\ Len(out.st.transactions) <= MaxTx
    /\ ps_store' = out.st
    /\ ps_last' = [op |-> op, request |-> request,
                   key |-> PS_key(request, today), pre |-> ps_store,
                   result |-> out.result, stripe_calls |-> out.stripe_calls,
                   run |-> out.run, faults |-> env.faults,
                   called |-> out.called, inner |-> out.inner]
    /\ UNCHANGED <<today, cb_vars, rt_vars, us_vars, af_vars>>

\* service.process_payment(request) on a PaymentService
ProcessPayment(request) ==
    \E env \in EnvsFor(PS_process_payment(ps_store, request, today, Calm)) :
       PSCommit("process_payment", request,
                PS_process_payment(ps_store, request, today, env), env)

\* handle_post_payments(request_body)
HandlePostPayments(body) ==
    \E env \in EnvsFor(PS_handle_post_payments(ps_store, body, today, Calm)) :
       PSCommit("handle_post_payments", Handler_parse(body),
                PS_handle_post_payments(ps_store, body, today, env), env)

\* midnight UTC passes
NextDay ==
    /\ today < MaxDay
    /\ today' = today + 1
    /\ ps_last' = [NoCall EXCEPT !.op = "day", !.pre = ps_store]
    /\ UNCHANGED <<ps_store, cb_vars, rt_vars, us_vars, af_vars>>

Next ==
    \/ \E request \in PaymentRequests : ProcessPayment(request)
    \/ \E body \in RequestBodies : HandlePostPayments(body)
    \/ NextDay

Spec == PSInit /\ [][Next]_vars

(***************************************************************************)
(* user_service.py: get_user over the module's MockDatabase                *)
(***************************************************************************)
\* isinstance(user_id, int); bool is a subclass of int
IsInt(x) == x.type \in {"int", "bool"}

\* dict.get(key): numbers that compare equal are the same key (True is 1)
DictGet(d, key) ==
    IF key.type \in {"int", "bool", "float"} /\ key.v \in DOMAIN d
    THEN <<d[key.v]>>
    ELSE None

DB_query_any(users, params) ==
    [users |-> users, params |-> params,
     row |-> <<users[CHOOSE k \in DOMAIN users :
                        \A j \in DOMAIN users : k <= j]>>]

\* MockDatabase.query: the row stored under params[0], None if there is none
DB_query(users, params) ==
    [users |-> users, params |-> params,
     row |-> IF params = <<>> THEN None ELSE DictGet(users, params[1])]

USRaise(users, queries, exc) ==
    [users |-> users, queries |-> queries, kind |-> "raise", exc |-> exc,
     value |-> None]

USReturn(users, queries, value) ==
    [users |-> users, queries |-> queries, kind |-> "return",
     exc |-> "none", value |-> value]

\* User(**row) with __post_init__: an email that is empty or has no "@" is
\* rejected; created_at is the time of construction
User(users, queries, row) ==
    IF row.email = <<>> \/ ~(\E i \in DOMAIN row.email : row.email[i] = "@")
    THEN USRaise(users, queries, "ValueError")
    ELSE USReturn(users, queries,
                  <<[id |-> row.id, name |-> row.name, email |-> row.email,
                     is_active |-> row.is_active,
                     created_at |-> "utcnow"]>>)

get_user(users, user_id, raise_on_missing) ==
    IF ~IsInt(user_id)
    THEN USRaise(users, <<>>, "TypeError")
    ELSE IF user_id.v < 1
    THEN USRaise(users, <<>>, "ValueError")
    ELSE LET q == DB_query(users, <<user_id>>)
             queries == <<q.params>>
         IN  IF q.row = None
             THEN IF raise_on_missing
                  THEN USRaise(q.users, queries, "UserNotFoundError")
                  ELSE USReturn(q.users, queries, None)
             ELSE User(q.users, queries, q.row[1])

\* the values the callers pass as user_id: ints around the stored ids, the
\* two bools, a str, a float and None
UserIdInputs ==
    {PyValue("int", v) : v \in -1 .. MaxUserId}
    \cup {PyValue("bool", 0), PyValue("bool", 1)}
    \cup {PyValue("str", 1), PyValue("float", 1), PyValue("NoneType", 0)}

USInit ==
    /\ USQuiet
    /\ CBQuiet
    /\ RTQuiet
    /\ PSQuiet
    /\ AFQuiet

GetUser(user_id, raise_on_missing) ==
    LET out == get_user(us_users, user_id, raise_on_missing)
    IN  /\ Len(us_queries) + Len(out.queries) <= MaxQueries
        /\ us_users' = out.users
        /\ us_queries' = us_queries \o out.queries
        /\ us_last' = [op |-> "get_user", user_id |-> user_id,
                       raise_on_missing |-> raise_on_missing,
                       kind |-> out.kind, exc |-> out.exc,
                       value |-> out.value, queries |-> out.queries,
                       users_before |-> us_users]
        /\ UNCHANGED <<cb_vars, rt_vars, ps_vars, af_vars>>

USNext ==
    \E user_id \in UserIdInputs : \E raise_on_missing \in BOOLEAN :
        GetUser(user_id, raise_on_missing)

SpecUser == USInit /\ [][USNext]_vars

(***************************************************************************)
(* async_flow_debugger.py: the inventory and its two lookups               *)
(***************************************************************************)
\* field in x["touches"]
Touches(flow, field) ==
    \E i \in DOMAIN flow.touches : flow.touches[i] = field

\* the three f-strings, each as the sequence of its parts (the pictograph
\* that opens each is left out, the arrow is written "->")
ScheduledEntry(task) ==
    <<"Scheduled: ", task.name, " (cron: ", task.schedule, ")">>

EventEntry(handler) ==
    <<"Event: ", handler.event, " -> ", handler.handler>>

JobEntry(job) ==
    <<"Job: ", job.name, " (queue: ", job.queue, ")">>

\* one for-loop of find_writers: from flow i on, append the entry of every
\* flow that touches the field
RECURSIVE AppendWriters(_, _, _, _, _)
AppendWriters(writers, flows, entries, field, i) ==
    IF i > Len(flows)
    THEN writers
    ELSE AppendWriters(IF Touches(flows[i], field)
                       THEN Append(writers, entries[i])
                       ELSE writers,
                       flows, entries, field, i + 1)

find_writers_jobs_first(flows, field) ==
    LET tasks == flows.scheduled_tasks
        handlers == flows.event_handlers
        jobs == flows.background_jobs
        w1 == AppendWriters(<<>>, tasks,
                  [i \in DOMAIN tasks |-> ScheduledEntry(tasks[i])],
                  field, 1)
        w2 == AppendWriters(w1, jobs,
                  [i \in DOMAIN jobs |-> JobEntry(jobs[i])], field, 1)
    IN  AppendWriters(w2, handlers,
            [i \in DOMAIN handlers |-> EventEntry(handlers[i])], field, 1)

find_writers(flows, field) ==
    LET tasks == flows.scheduled_tasks
        handlers == flows.event_handlers
        jobs == flows.background_jobs
        w1 == AppendWriters(<<>>, tasks,
                  [i \in DOMAIN tasks |-> ScheduledEntry(tasks[i])],
                  field, 1)
        w2 == AppendWriters(w1, handlers,
                  [i \in DOMAIN handlers |-> EventEntry(handlers[i])],
                  field, 1)
    IN  AppendWriters(w2, jobs,
            [i \in DOMAIN jobs |-> JobEntry(jobs[i])], field, 1)

\* fields.update(x["touches"]) over one group
TouchedIn(flows) ==
    UNION {{flows[i].touches[k] : k \in DOMAIN flows[i].touches} :
           i \in DOMAIN flows}

get_all_fields(flows) ==
    TouchedIn(flows.scheduled_tasks)
    \cup TouchedIn(flows.event_handlers)
    \cup TouchedIn(flows.background_jobs)

\* debug_field: the writers, and the available fields when there are none
debug_field(flows, field) ==
    LET writers == find_writers(flows, field)
    IN  IF writers = <<>>
        THEN [writers |-> writers, fields |-> get_all_fields(flows),
              printed |-> "No async processes found"]
        ELSE [writers |-> writers, fields |-> {},
              printed |-> "Found async process(es)"]

\* touches lists for edited inventories: none, one field, two fields, a
\* field listed twice
TouchOptions ==
    {<<>>, <<"balance">>, <<"audit_log">>, <<"balance", "audit_log">>,
     <<"balance", "balance">>}

\* the first n flows of a group of the file's inventory, n up to MaxFlows,
\* with their touches lists edited
EditedGroup(group) ==
    UNION {{[i \in 1 .. n |-> [group[i] EXCEPT !.touches = t[i]]] :
            t \in [1 .. n -> TouchOptions]} : n \in 0 .. MaxFlows}

\* ASYNC_FLOWS is meant to be edited ("CUSTOMIZE THIS"): the file's
\* inventory and the edited ones
Inventories ==
    {ASYNC_FLOWS}
    \cup {[scheduled_tasks |-> s, event_handlers |-> e,
           background_jobs |-> j] :
              s \in EditedGroup(ASYNC_FLOWS.scheduled_tasks),
              e \in EditedGroup(ASYNC_FLOWS.event_handlers),
              j \in EditedGroup(ASYNC_FLOWS.background_jobs)}

\* the fields asked for: tracked ones and one that nothing touches
FieldInputs ==
    {"balance", "audit_log", "transactions", "sessions", "no_such_field"}

AFInit ==
    /\ af_flows \in Inventories
    /\ af_last = NoFlowCall
    /\ CBQuiet
    /\ RTQuiet
    /\ PSQuiet
    /\ USQuiet

FindWriters(field) ==
    /\ af_last' = [op |-> "find_writers", field |-> field,
                   writers |-> find_writers(af_flows, field),
                   fields |-> {}, printed |-> "nothing"]
    /\ UNCHANGED <<af_flows, cb_vars, rt_vars, ps_vars, us_vars>>

GetAllFields ==
    /\ af_last' = [op |-> "get_all_fields", field |-> "none",
                   writers |-> <<>>, fields |-> get_all_fields(af_flows),
                   printed |-> "nothing"]
    /\ UNCHANGED <<af_flows, cb_vars, rt_vars, ps_vars, us_vars>>

DebugField(field) ==
    LET out == debug_field(af_flows, field)
    IN  /\ af_last' = [op |-> "debug_field", field |-> field,
                       writers |-> out.writers, fields |-> out.fields,
                       printed |-> out.printed]
        /\ UNCHANGED <<af_flows, cb_vars, rt_vars, ps_vars, us_vars>>

AFNext ==
    \/ \E field \in FieldInputs : FindWriters(field)
    \/ GetAllFields
    \/ \E field \in FieldInputs : DebugField(field)

SpecFlows == AFInit /\ [][AFNext]_vars

(***************************************************************************)
(* Claims about the circuit breakers (checked under SpecCB)                *)
(***************************************************************************)
Elapsed(b, t) == t - b._last_failure_time[1]

\* an OPEN breaker whose recovery timeout has not passed at clock reading t
StillOpen(b, t) ==
    /\ b._state = "OPEN"
    /\ b._last_failure_time # None
    /\ Elapsed(b, t) < cb_config.recovery_timeout

\* an OPEN breaker whose recovery timeout has passed at clock reading t
Recoverable(b, t) ==
    /\ b._state = "OPEN"
    /\ b._last_failure_time # None
    /\ Elapsed(b, t) >= cb_config.recovery_timeout

AllowedChanges ==
    {<<"CLOSED", "OPEN">>, <<"OPEN", "HALF_OPEN">>,
     <<"HALF_OPEN", "CLOSED">>, <<"HALF_OPEN", "OPEN">>}

\* C3: every change of _state made by call() or by the passing of time, in
\* either breaker, is CLOSED->OPEN, OPEN->HALF_OPEN, HALF_OPEN->CLOSED or
\* HALF_OPEN->OPEN; only reset() may also take OPEN directly to CLOSED; and
\* _state changes only through these recorded assignments.
C3_OnlyAllowedChanges ==
    /\ cb_last.ph_changes \subseteq AllowedChanges
    /\ cb_last.op # "reset" => cb_last.rc_changes \subseteq AllowedChanges
    /\ cb_last.op = "reset" =>
          cb_last.rc_changes \subseteq (AllowedChanges \cup {<<"OPEN", "CLOSED">>})
    /\ cb_last.ph_changes = {} => ph._state = cb_last.ph_pre._state
    /\ cb_last.rc_changes = {} => rc._state = cb_last.rc_pre._state

\* C3 witness: one call() took both breakers from OPEN through HALF_OPEN to CLOSED
C3_Witness ==
    /\ cb_last.op = "call"
    /\ cb_last.ph_changes = {<<"OPEN", "HALF_OPEN">>, <<"HALF_OPEN", "CLOSED">>}
    /\ cb_last.rc_changes = {<<"OPEN", "HALF_OPEN">>, <<"HALF_OPEN", "CLOSED">>}

\* C4: a call() on an OPEN breaker made less than recovery_timeout after the
\* last recorded failure raises CircuitOpenError, does not invoke the wrapped
\* function and leaves the four private fields as they were.
C4_OpenRejectsUnchanged ==
    cb_last.op = "call" =>
      /\ StillOpen(cb_last.ph_pre, cb_last.t) =>
            /\ ~cb_last.ph_invoked
            /\ cb_last.ph_result = "CircuitOpenError"
            /\ ph = cb_last.ph_pre
      /\ StillOpen(cb_last.rc_pre, cb_last.t) =>
            /\ ~cb_last.rc_invoked
            /\ cb_last.rc_result = "CircuitOpenError"
            /\ rc = cb_last.rc_pre

\* C4 witness: both breakers were called while OPEN inside the recovery timeout
C4_Witness ==
    /\ cb_last.op = "call"
    /\ StillOpen(cb_last.ph_pre, cb_last.t)
    /\ StillOpen(cb_last.rc_pre, cb_last.t)
    /\ cb_last.ph_pre._failures >= 2

\* C5 for one breaker b with pre-state pre, streak n, invoked/result of the
\* last operation
OpensAtThreshold(b, pre, n, invoked, result) ==
    /\ b._state = "CLOSED" => b._failures = n /\ n < cb_config.failure_threshold
    /\ n < cb_config.failure_threshold => b._state # "OPEN"
    /\ cb_last.op = "call" /\ pre._state = "CLOSED" =>
          (b._state = "OPEN" <=> n = cb_config.failure_threshold)
    /\ cb_last.op = "call" /\ invoked /\ result = "returned" => b._failures = 0

\* C5: with failure_threshold >= 1, a CLOSED breaker becomes OPEN exactly at
\* the call at which the number of consecutive failed calls reaches
\* failure_threshold; a successful call sets _failures to 0; with fewer
\* consecutive failures the breaker is not OPEN.
C5_OpensExactlyAtThreshold ==
    cb_config.failure_threshold >= 1 =>
      /\ OpensAtThreshold(ph, cb_last.ph_pre, streak.ph,
                          cb_last.ph_invoked, cb_last.ph_result)
      /\ OpensAtThreshold(rc, cb_last.rc_pre, streak.rc,
                          cb_last.rc_invoked, cb_last.rc_result)

\* C5 witness: with threshold 2 a failed call has just opened both breakers
\* after an earlier success had reset the count
C5_Witness ==
    /\ cb_config.failure_threshold = 2
    /\ cb_last.op = "call"
    /\ cb_last.ph_pre._state = "CLOSED" /\ ph._state = "OPEN"
    /\ cb_last.rc_pre._state = "CLOSED" /\ rc._state = "OPEN"
    /\ streak.ph = 2 /\ streak.rc = 2
    /\ now >= 3

\* the trial of C6 for one breaker: admitted through HALF_OPEN, then CLOSED
\* with no failures on success, OPEN with the failure's time on failure
TrialAdmitted(b, invoked, changes) ==
    /\ invoked
    /\ <<"OPEN", "HALF_OPEN">> \in changes
    /\ cb_last.outcome = "ok" => b._state = "CLOSED" /\ b._failures = 0
    /\ cb_last.outcome = "fail" =>
          /\ b._state = "OPEN"
          /\ b._last_failure_time = Some(now)
          /\ StillOpen(b, now)

\* C6 as stated: in both breakers the first call() at or after
\* recovery_timeout since the last failure is admitted as a HALF_OPEN trial,
\* ending CLOSED with _failures = 0 or OPEN with a fresh _last_failure_time.
C6_Original ==
    cb_last.op = "call" =>
      /\ Recoverable(cb_last.ph_pre, cb_last.t) =>
            TrialAdmitted(ph, cb_last.ph_invoked, cb_last.ph_changes)
      /\ Recoverable(cb_last.rc_pre, cb_last.t) =>
            TrialAdmitted(rc, cb_last.rc_invoked, cb_last.rc_changes)

\* C6 amended: the trial is admitted by payment_handlers always and by
\* resilient_api_client when half_open_max_calls >= 1; with
\* half_open_max_calls <= 0 resilient_api_client moves to HALF_OPEN, rejects
\* the call with CircuitOpenError without invoking the function, and stays
\* HALF_OPEN.
C6_RecoveryTrial ==
    cb_last.op = "call" =>
      /\ Recoverable(cb_last.ph_pre, cb_last.t) =>
            TrialAdmitted(ph, cb_last.ph_invoked, cb_last.ph_changes)
      /\ Recoverable(cb_last.rc_pre, cb_last.t) =>
            IF cb_config.half_open_max_calls >= 1
               THEN TrialAdmitted(rc, cb_last.rc_invoked, cb_last.rc_changes)
               ELSE /\ ~cb_last.rc_invoked
                    /\ cb_last.rc_result = "CircuitOpenError"
                    /\ rc = [cb_last.rc_pre EXCEPT !._state = "HALF_OPEN"]

\* C6 witness: a trial after the timeout failed in both breakers, which are
\* OPEN again
C6_Witness ==
    /\ cb_last.op = "call"
    /\ cb_last.outcome = "fail"
    /\ Recoverable(cb_last.ph_pre, cb_last.t)
    /\ Recoverable(cb_last.rc_pre, cb_last.t)
    /\ cb_config.half_open_max_calls >= 1
    /\ cb_last.ph_invoked /\ cb_last.rc_invoked
    /\ ph._state = "OPEN" /\ rc._state = "OPEN"

\* C18 as stated: in both breakers and for every half_open_max_calls, the
\* wrapped function is invoked at most half_open_max_calls times between the
\* breaker entering HALF_OPEN and leaving it.
C18_Original ==
    /\ cb_last.ph_trials <= cb_config.half_open_max_calls
    /\ cb_last.rc_trials <= cb_config.half_open_max_calls

\* C18, what the code does: resilient_api_client.py keeps to
\* half_open_max_calls; payment_handlers.py never compares against it and
\* invokes the first call after the recovery timeout whatever its value.  One
\* invoked call ends a stay in HALF_OPEN (CLOSED on success, OPEN on failure),
\* so that calls made one after the other see at most one invocation per stay.
C18_TrialsPerStay ==
    /\ cb_last.rc_trials <= cb_config.half_open_max_calls
    /\ cb_last.rc_trials <= 1
    /\ cb_last.ph_trials <= 1

\* payment_handlers.py has invoked a trial call that half_open_max_calls does
\* not allow, in the very call resilient_api_client.py rejected
C18_Witness ==
    /\ cb_last.op = "call"
    /\ cb_last.ph_trials > cb_config.half_open_max_calls
    /\ cb_last.ph_invoked
    /\ ~cb_last.rc_invoked
    /\ rc._state = "HALF_OPEN"

\* the two breakers agree: in the stored state and failure count, in the
\* state the property reports now, and, for a call, in whether the wrapped
\* function was invoked, how the call ended and which state changes it made
SameBehaviour ==
    /\ ph._state = rc._state
    /\ ph._failures = rc._failures
    /\ PH_state(ph, now, cb_config)._state = RC_state(rc, now, cb_config)._state
    /\ cb_last.op = "call" =>
           /\ cb_last.ph_invoked = cb_last.rc_invoked
           /\ cb_last.ph_result = cb_last.rc_result
           /\ cb_last.ph_changes = cb_last.rc_changes

\* C21: driven by the same call() invocations, call outcomes and clock
\* advances, with positive clock readings and the same configuration, the
\* CircuitBreaker of payment_handlers.py and that of resilient_api_client.py
\* admit and reject the same calls and pass through the same states and
\* failure counts.
C21_Original == SameBehaviour

\* C21, what the code does: the two agree at every step when
\* half_open_max_calls allows a trial; below 1, resilient_api_client.py
\* rejects the call made in HALF_OPEN and stays there, payment_handlers.py
\* invokes it.
C21_SameWithTrialAllowed ==
    cb_config.half_open_max_calls >= 1 => SameBehaviour

\* the same call, after the recovery timeout, admitted by one breaker and
\* rejected by the other, which leaves them in different states
C21_Witness ==
    /\ cb_last.op = "call"
    /\ cb_last.ph_pre = cb_last.rc_pre
    /\ cb_last.ph_pre._state = "OPEN"
    /\ cb_last.ph_result # "CircuitOpenError"
    /\ cb_last.rc_result = "CircuitOpenError"
    /\ ph._state # rc._state

(***************************************************************************)
(* Claims about retry_with_backoff (checked under SpecRetry)               *)
(***************************************************************************)
Finished == rt_run.status # "idle"

\* invocation i of the last wrapper call raised an exception the decorator retries
RetryableAt(i) ==
    /\ rt_run.outs[i].kind = "raise"
    /\ Bases(rt_run.outs[i].type) \cap rt_config.retryable_exceptions # {}

\* invocation i of the last wrapper call raised an exception the decorator
\* does not retry
NotRetryableAt(i) ==
    /\ rt_run.outs[i].kind = "raise"
    /\ Bases(rt_run.outs[i].type) \cap rt_config.retryable_exceptions = {}

NumberOf(kind) ==
    Cardinality({i \in 1..Len(rt_run.events) : rt_run.events[i].ev = kind})

\* C7: one call of the wrapper invokes the wrapped function at most
\* max_retries + 1 times; it stops at the first invocation that returns, with
\* that invocation's value; and it reaches max_retries + 1 invocations only
\* when the first max_retries invocations all raised a retryable exception.
C7_AtMostNPlusOneCalls ==
    Finished =>
      /\ rt_run.calls >= 1
      /\ rt_run.calls <= rt_config.max_retries + 1
      /\ NumberOf("call") = rt_run.calls
      /\ \A i \in 1..(rt_run.calls - 1) : rt_run.outs[i].kind # "return"
      /\ rt_run.outs[rt_run.calls].kind = "return" =>
            /\ rt_run.status = "returned"
            /\ rt_run.value = rt_run.outs[rt_run.calls].value
      /\ rt_run.status = "returned" => rt_run.outs[rt_run.calls].kind = "return"
      /\ rt_run.calls = rt_config.max_retries + 1 =>
            \A i \in 1..rt_config.max_retries : RetryableAt(i)

\* C7 witness: the wrapped function returned at its last permitted invocation
C7_Witness ==
    /\ Finished
    /\ rt_config.max_retries = 2
    /\ rt_run.calls = 3
    /\ rt_run.status = "returned"
    /\ rt_run.value = "b"

\* C8: in payment_handlers.py and resilient_api_client.py, when all
\* max_retries + 1 invocations raise a retryable exception the wrapper raises
\* MaxRetriesExceededError whose cause is the last exception, after exactly
\* max_retries sleeps, the last event being the failed invocation.
C8_ExhaustedRaisesMaxRetries ==
    (/\ Finished
     /\ rt_impl \in {"PH", "RC"}
     /\ rt_run.calls = rt_config.max_retries + 1
     /\ \A i \in 1..rt_run.calls : RetryableAt(i))
    =>
      /\ rt_run.status = "raised"
      /\ rt_run.exc.type = "MaxRetriesExceededError"
      /\ rt_run.exc.cause = rt_config.max_retries + 1
      /\ NumberOf("sleep") = rt_config.max_retries
      /\ rt_run.events[Len(rt_run.events)].ev = "call"
      /\ \A i \in 1..(Len(rt_run.events) - 1) :
            rt_run.events[i].ev = "call" => rt_run.events[i + 1].ev = "sleep"

\* C8 witness: three retryable failures with max_retries = 2 in
\* resilient_api_client.py
C8_Witness ==
    /\ Finished
    /\ rt_impl = "RC"
    /\ rt_config.max_retries = 2
    /\ rt_run.calls = 3
    /\ \A i \in 1..3 : RetryableAt(i)
    /\ rt_run.exc.type = "MaxRetriesExceededError"

\* C9: an exception whose class is not among retryable_exceptions leaves the
\* wrapper as the same exception at the invocation that raised it, which is
\* the wrapper's last event; CircuitOpenError is such an exception under the
\* default retryable_exceptions.
C9_NonRetryablePropagates ==
    Finished =>
      /\ \A i \in 1..rt_run.calls :
            NotRetryableAt(i) =>
              /\ i = rt_run.calls
              /\ rt_run.status = "raised"
              /\ rt_run.exc = ExcOf(rt_run.outs[i], i)
              /\ rt_run.events[Len(rt_run.events)].ev = "call"
              /\ NumberOf("sleep") = i - 1
      /\ \A i \in 1..rt_run.calls :
            (/\ rt_run.outs[i].type = "CircuitOpenError"
             /\ rt_config.retryable_exceptions = DefaultRetryable(rt_impl))
            => NotRetryableAt(i)

\* C9 witness: CircuitOpenError raised at the second invocation under the
\* default retryable_exceptions ended the call
C9_Witness ==
    /\ Finished
    /\ rt_config.retryable_exceptions = DefaultRetryable(rt_impl)
    /\ rt_run.calls = 2
    /\ rt_run.outs[2].type = "CircuitOpenError"
    /\ rt_run.exc.type = "CircuitOpenError"

IsRateLimit(i) ==
    /\ rt_impl = "PS"
    /\ "StripeRateLimitError" \in Bases(rt_run.outs[i].type)

Sleeps == {rt_run.events[i].s : i \in {j \in 1..Len(rt_run.events) :
                                          rt_run.events[j].ev = "sleep"}}

\* max_delay seconds in the unit of the sleeps
MaxDelayTicks == rt_config.max_delay * NoJitter

\* C11 as stated: in all three decorators, with jitter on or off, no sleep of
\* the wrapper is longer than max_delay seconds.
C11_Original ==
    Finished => \A sl \in Sleeps : sl <= MaxDelayTicks

\* C11, what the code does: without jitter no sleep is longer than max_delay;
\* with jitter the capped delay is multiplied by a factor in [0.75, 1.25), so
\* a sleep stays below 1.25 * max_delay.
C11_SleepBelowJitteredCap ==
    Finished =>
       \A sl \in Sleeps :
          IF rt_config.jitter THEN 4 * sl < 5 * MaxDelayTicks
                              ELSE sl <= MaxDelayTicks

\* a jittered sleep longer than max_delay
C11_Witness ==
    /\ Finished
    /\ rt_config.jitter
    /\ \E sl \in Sleeps : sl > MaxDelayTicks

(***************************************************************************)
(* Claims about the payment service                                        *)
(***************************************************************************)
IsCall == ps_last.op \in {"process_payment", "handle_post_payments"}

\* the request passes _validate_request
ValidRequest(r) ==
    /\ r.amount > 0
    /\ r.amount <= 10000
    /\ r.currency \in {"usd", "eur", "gbp"}

\* ids of the transactions of store st under idempotency key k, by status
TxUnder(st, k, status) ==
    {i \in DOMAIN st.transactions :
        /\ st.transactions[i].idempotency_key = k
        /\ st.transactions[i].status = status}

ChargesUnder(st, k) ==
    {i \in DOMAIN st.charges : st.charges[i].idempotency_key = k}

KeysOf(st) ==
    {st.transactions[i].idempotency_key : i \in DOMAIN st.transactions}
       \cup {st.charges[i].idempotency_key : i \in DOMAIN st.charges}

\* C1: once a transaction under idempotency key K is COMPLETED, every later
\* process_payment call with a valid request under K (the key given, or the
\* one generated from the request) ends in DuplicatePaymentError, code
\* DUPLICATE_PAYMENT and status 409, naming that transaction; it calls Stripe
\* zero times and leaves transactions, index, balances, charges and queue as
\* they were.  Raised by process_payment, and returned as the 409 response by
\* handle_post_payments, whose new repositories see the same transactions.
C1_DuplicateRejected ==
    (/\ IsCall
     /\ ValidRequest(ps_last.request)
     /\ TxUnder(ps_last.pre, ps_last.key, "COMPLETED") # {})
    => /\ ps_last.result.code = "DUPLICATE_PAYMENT"
       /\ ps_last.result.status_code = 409
       /\ ps_last.result.original_transaction_id
             \in TxUnder(ps_last.pre, ps_last.key, "COMPLETED")
       /\ ps_last.result.kind =
             (IF ps_last.op = "process_payment" THEN "raise" ELSE "return")
       /\ ps_last.stripe_calls = 0
       /\ ps_store = ps_last.pre

\* a handle_post_payments call repeats a completed payment under a generated
\* key and gets the 409
C1_Witness ==
    /\ ps_last.op = "handle_post_payments"
    /\ ps_last.request.idempotency_key = None
    /\ ValidRequest(ps_last.request)
    /\ TxUnder(ps_last.pre, ps_last.key, "COMPLETED") # {}
    /\ ps_last.result.code = "DUPLICATE_PAYMENT"
    /\ ps_last.stripe_calls = 0

\* C2: whatever process_payment calls were made, with Stripe succeeding,
\* declining, timing out or rate limiting in any mix, every idempotency key
\* has at most one COMPLETED transaction and at most one successful charge.
C2_OneCompletedPerKey ==
    \A k \in KeysOf(ps_store) :
       /\ Cardinality(TxUnder(ps_store, k, "COMPLETED")) <= 1
       /\ Cardinality(ChargesUnder(ps_store, k)) <= 1

\* a key whose first payment failed after a rate limit or timeout and whose
\* second payment completed after retries
C2_Witness ==
    /\ IsCall
    /\ ps_last.stripe_calls > 1
    /\ TxUnder(ps_store, ps_last.key, "FAILED") # {}
    /\ Cardinality(TxUnder(ps_store, ps_last.key, "COMPLETED")) = 1
    /\ Cardinality(ChargesUnder(ps_store, ps_last.key)) = 1
    /\ TxUnder(ps_last.pre, ps_last.key, "COMPLETED") = {}

\* the last call got as far as _call_stripe_with_retry
ReachedStripe == IsCall /\ ps_last.run.calls > 0

\* the last call created exactly one transaction, under its key
CreatedOne ==
    /\ Len(ps_store.transactions) = Len(ps_last.pre.transactions) + 1
    /\ \A i \in DOMAIN ps_last.pre.transactions :
          ps_store.transactions[i] = ps_last.pre.transactions[i]
    /\ ps_store.transactions[Len(ps_store.transactions)].idempotency_key
          = ps_last.key

\* the transaction the last call created
Created == ps_store.transactions[Len(ps_last.pre.transactions) + 1]

C13_Declined ==
    (ReachedStripe /\ ps_last.run.status = "returned"
                   /\ ps_last.run.value = "failed")
    => /\ CreatedOne
       /\ Created.status = "FAILED"
       /\ Created.error_message = DeclineMessage
       /\ ps_last.inner.kind = "raise"
       /\ ps_last.inner.code = "PAYMENT_DECLINED"
       /\ ps_last.inner.status_code = 402
       /\ ps_last.inner.decline_code = "card_declined"
       /\ ps_last.run.calls = ps_last.run.raises + 1
       /\ ps_store.users = ps_last.pre.users
       /\ ps_store.charges = ps_last.pre.charges

\* a decline at the second attempt, after a timeout or rate limit
C13_Witness ==
    /\ ps_last.op = "process_payment"
    /\ ps_last.run.value = "failed"
    /\ ps_last.run.calls = 2
    /\ Created.status = "FAILED"
    /\ ps_last.result.status_code = 402

\* create_charge succeeded in the last call
Charged ==
    /\ ReachedStripe
    /\ ps_last.run.status = "returned"
    /\ ps_last.run.value = "succeeded"

\* the last call put exactly one item on the reconciliation queue, and the
\* item carries the id of the charge and of the transaction of this call
QueuedOne ==
    /\ Len(ps_store.queue) = Len(ps_last.pre.queue) + 1
    /\ \A i \in DOMAIN ps_last.pre.queue :
          ps_store.queue[i] = ps_last.pre.queue[i]
    /\ Len(ps_store.charges) = Len(ps_last.pre.charges) + 1
    /\ LET item == ps_store.queue[Len(ps_store.queue)]
       IN  /\ item.stripe_charge_id = ps_store.charges[Len(ps_store.charges)].id
           /\ item.stripe_charge_id = Created.stripe_charge_id
           /\ item.transaction_id = Created.id

\* C14: after a successful charge, if transaction_repo.update raises, exactly
\* one item with the charge id and the transaction id is put on the
\* reconciliation queue and process_payment raises PartialFailureError
\* (PARTIAL_FAILURE, 500); if instead user_repo.update_balance raises,
\* exactly one item is put on the queue and process_payment returns status
\* "success".
C14_PartialFailure ==
    /\ (Charged /\ "update" \in ps_last.faults)
       => /\ CreatedOne
          /\ QueuedOne
          /\ ps_last.inner.kind = "raise"
          /\ ps_last.inner.code = "PARTIAL_FAILURE"
          /\ ps_last.inner.status_code = 500
    /\ (Charged /\ "update_balance" \in ps_last.faults
                /\ "update" \notin ps_last.faults)
       => /\ CreatedOne
          /\ QueuedOne
          /\ ps_last.inner.kind = "return"
          /\ ps_last.inner.status = "success"

\* a store whose queue holds an item of each kind: one call raised
\* PartialFailureError, the last one returned success with the balance as before
C14_Witness ==
    /\ Charged
    /\ ps_last.faults = {"update_balance"}
    /\ ps_last.inner.status = "success"
    /\ ps_store.users = ps_last.pre.users
    /\ Len(ps_store.queue) = 2
    /\ ps_store.queue[1].error = "update"

\* Stripe answered the last create_charge attempt of the last call with a
\* rate-limit error
RateLimitedOut == ReachedStripe /\ ps_last.run.exc = "StripeRateLimitError"

\* C15 as stated: when Stripe answers a charge with a rate-limit error the
\* payment is put on a queue to be retried later, instead of create_charge
\* being invoked again inside the same process_payment call.
C15_Original ==
    RateLimitedOut
    => /\ Len(ps_store.queue) = Len(ps_last.pre.queue) + 1
       /\ ps_last.stripe_calls = 1

\* C15, what the code does: a call that ends on a rate-limit error has invoked
\* create_charge four times, has put nothing on the queue, leaves its
\* transaction FAILED and raises PaymentServiceUnavailableError (503).
C15_RateLimitRetriedInline ==
    RateLimitedOut
    => /\ ps_store.queue = ps_last.pre.queue
       /\ ps_last.stripe_calls = 4
       /\ Created.status = "FAILED"
       /\ ps_last.inner.status_code = 503

C15_Witness ==
    /\ RateLimitedOut
    /\ ps_store.queue = ps_last.pre.queue
    /\ ps_last.stripe_calls = 4

\* C16: a process_payment call whose request has amount <= 0, amount > 10000
\* or a currency other than usd, eur and gbp raises ValidationError
\* (VALIDATION_ERROR, 400) for that field and does nothing else: Stripe is
\* not called and transactions, index, balances, charges and queue are as
\* before, also when the key of the request belongs to a COMPLETED
\* transaction (no DuplicatePaymentError then).
C16_ValidationFirst ==
    (IsCall /\ ps_last.called /\ ~ValidRequest(ps_last.request))
    => /\ ps_last.inner.kind = "raise"
       /\ ps_last.inner.code = "VALIDATION_ERROR"
       /\ ps_last.inner.status_code = 400
       /\ ps_last.inner.field \in {"amount", "currency"}
       /\ ps_last.stripe_calls = 0
       /\ ps_store = ps_last.pre

\* an invalid request under the key of a COMPLETED transaction
C16_Witness ==
    /\ IsCall
    /\ ps_last.called
    /\ ~ValidRequest(ps_last.request)
    /\ TxUnder(ps_last.pre, ps_last.key, "COMPLETED") # {}
    /\ ps_last.inner.code = "VALIDATION_ERROR"

\* the status code of each BaseAPIError subclass process_payment raises
StatusOf ==
    [c \in {"VALIDATION_ERROR", "PAYMENT_DECLINED", "DUPLICATE_PAYMENT",
            "SERVICE_UNAVAILABLE", "PARTIAL_FAILURE"} |->
        CASE c = "VALIDATION_ERROR" -> 400
          [] c = "PAYMENT_DECLINED" -> 402
          [] c = "DUPLICATE_PAYMENT" -> 409
          [] c = "SERVICE_UNAVAILABLE" -> 503
          [] c = "PARTIAL_FAILURE" -> 500]

\* C17: handle_post_payments always returns a (body, status) pair.  The
\* status is 200 exactly when process_payment was called and returned; when
\* process_payment raises ValidationError, PaymentDeclinedError,
\* DuplicatePaymentError, PaymentServiceUnavailableError or
\* PartialFailureError the body carries that error's code and the status is
\* 400, 402, 409, 503 or 500; any other exception gives code INTERNAL_ERROR
\* and status 500.
C17_HandlerStatus ==
    ps_last.op = "handle_post_payments"
    => /\ ps_last.result.kind = "return"
       /\ ps_last.result.status_code = 200
             <=> (ps_last.called /\ ps_last.inner.kind = "return")
       /\ ps_last.inner.kind = "return"
             => ps_last.result.status = ps_last.inner.status
       /\ (ps_last.inner.kind = "raise"
              /\ ps_last.inner.code \in DOMAIN StatusOf)
             => /\ ps_last.result.code = ps_last.inner.code
                /\ ps_last.result.status_code = StatusOf[ps_last.inner.code]
       /\ (ps_last.inner.kind = "raise"
              /\ ps_last.inner.code \notin DOMAIN StatusOf)
             => /\ ps_last.result.code = "INTERNAL_ERROR"
                /\ ps_last.result.status_code = 500

\* the body whose amount is no number is answered INTERNAL_ERROR, 500
C17_Witness ==
    /\ ps_last.op = "handle_post_payments"
    /\ ps_last.inner.kind = "raise"
    /\ ps_last.inner.code \notin DOMAIN StatusOf
    /\ ps_last.result.kind = "return"
    /\ ps_last.result.code = "INTERNAL_ERROR"
    /\ ps_last.result.status_code = 500

(***************************************************************************)
(* Claims about user_service.get_user (checked under SpecUser)             *)
(***************************************************************************)
\* C19: get_user raises TypeError when user_id is not an int and ValueError
\* when it is below 1, both without a database query; a valid id with no
\* stored user gives None, or UserNotFoundError when raise_on_missing is
\* set; a stored user comes back as a User whose id equals user_id; the
\* stored users are never changed.
C19_GetUser ==
    us_last.op = "get_user" =>
        LET x == us_last.user_id
            int == x.type \in {"int", "bool"}
            stored == x.v \in DOMAIN us_last.users_before
        IN  /\ us_users = us_last.users_before
            /\ ~int =>
                   /\ us_last.kind = "raise" /\ us_last.exc = "TypeError"
                   /\ us_last.queries = <<>>
            /\ int /\ x.v < 1 =>
                   /\ us_last.kind = "raise" /\ us_last.exc = "ValueError"
                   /\ us_last.queries = <<>>
            /\ int /\ x.v >= 1 /\ ~stored /\ ~us_last.raise_on_missing =>
                   us_last.kind = "return" /\ us_last.value = None
            /\ int /\ x.v >= 1 /\ ~stored /\ us_last.raise_on_missing =>
                   us_last.kind = "raise"
                   /\ us_last.exc = "UserNotFoundError"
            /\ int /\ x.v >= 1 /\ stored =>
                   /\ us_last.kind = "return"
                   /\ Len(us_last.value) = 1
                   /\ us_last.value[1].id = x.v

\* a stored user is returned after an earlier call has already queried
C19_Witness ==
    /\ us_last.op = "get_user"
    /\ us_last.user_id = PyValue("int", 2)
    /\ us_last.kind = "return"
    /\ us_last.value # None
    /\ Len(us_queries) = 2

(***************************************************************************)
(* Claims about async_flow_debugger (checked under SpecFlows)              *)
(***************************************************************************)
\* the inventory as one list: scheduled tasks, event handlers, background
\* jobs
FlowCount ==
    Len(af_flows.scheduled_tasks) + Len(af_flows.event_handlers)
    + Len(af_flows.background_jobs)

FlowAt(p) ==
    LET n1 == Len(af_flows.scheduled_tasks)
        n2 == Len(af_flows.event_handlers)
    IN  IF p <= n1 THEN af_flows.scheduled_tasks[p]
        ELSE IF p <= n1 + n2 THEN af_flows.event_handlers[p - n1]
        ELSE af_flows.background_jobs[p - n1 - n2]

EntryAt(p) ==
    LET n1 == Len(af_flows.scheduled_tasks)
        n2 == Len(af_flows.event_handlers)
        x == FlowAt(p)
    IN  IF p <= n1
        THEN <<"Scheduled: ", x.name, " (cron: ", x.schedule, ")">>
        ELSE IF p <= n1 + n2
        THEN <<"Event: ", x.event, " -> ", x.handler>>
        ELSE <<"Job: ", x.name, " (queue: ", x.queue, ")">>

\* the places in that list whose touches list contains the field
WriterPlaces(field) ==
    {p \in 1 .. FlowCount :
        \E k \in DOMAIN FlowAt(p).touches : FlowAt(p).touches[k] = field}

\* C20: find_writers(field) has exactly one entry per flow whose touches
\* contains the field, scheduled tasks first, then event handlers, then
\* background jobs, each group in inventory order; and a field is in
\* get_all_fields() exactly when find_writers(field) is not empty.
C20_WritersAndFields ==
    /\ af_last.op \in {"find_writers", "debug_field"} =>
           LET places == WriterPlaces(af_last.field)
           IN  /\ Len(af_last.writers) = Cardinality(places)
               /\ \A p \in places :
                      af_last.writers[Cardinality({q \in places : q <= p})]
                          = EntryAt(p)
               /\ af_last.field \in get_all_fields(af_flows)
                      <=> af_last.writers # <<>>
    /\ af_last.op = "debug_field" /\ af_last.writers = <<>> =>
           af_last.field \notin af_last.fields
    /\ af_last.op = "get_all_fields" =>
           \A field \in FieldInputs :
               field \in af_last.fields
                   <=> find_writers(af_flows, field) # <<>>

\* the file's inventory asked about "balance": a task, a handler and a job
C20_Witness ==
    /\ af_flows = ASYNC_FLOWS
    /\ af_last.op = "find_writers"
    /\ af_last.field = "balance"
    /\ af_last.writers =
           <<<<"Scheduled: ", "nightly_reconciliation", " (cron: ",
               "0 3 * * *", ")">>,
             <<"Event: ", "payment.succeeded", " -> ", "update_balance">>,
             <<"Job: ", "process_refund", " (queue: ", "payments", ")">>>>

====
